---- MODULE Spec2Model ----
(***************************************************************************)
(* MathexLab: execution kernel (kernel/executor.py, kernel/loader.py,      *)
(* kernel/session.py), the assignment rules of the transpiler              *)
(* (language/transpiler.py) and the indexed read / write contract of the   *)
(* array value (math/arrays.py).                                           *)
(*                                                                         *)
(* Spec      : a session driven by execute() calls.                        *)
(* SpecArr   : array variables driven by assignments and indexed writes.   *)
(* SpecIdx   : indexed reads of dense and sparse arrays.                   *)
(* SpecPath  : the search path and name resolution (kernel/path_manager).  *)
(* SpecParse : command-syntax statements (language/parser.py).             *)
(* SpecTok   : the tokenizer (language/tokenizer.py) on short texts.       *)
(* SpecUi    : the desktop host and its worker (ui/app.py).                *)
(* SpecCall  : argument binding of a generated function.                   *)
(***************************************************************************)
EXTENDS Integers, Sequences, FiniteSets, TLC

VARIABLES
    globals,     \* session.globals: the workspace, name -> value
    registered,  \* registry._map: names with a FunctionEntry
    files,       \* names n for which a file n.m can be resolved
    pc,          \* position of the read-execute-print loop
    line,        \* the unit read at the prompt
    stdout,      \* lines printed by execute() for that unit
    ret,         \* value returned by execute()
    retries,     \* nested execute() calls made by the unresolved-name handler
    escaped,     \* an exception left execute()
    atload,      \* file statements run by load_and_register in that call
    ran,         \* statements completed by the last attempt
    pre,         \* the workspace when the unit was read
    calls,       \* units read so far
    heap,        \* MatlabArray objects, identity -> contents
    avars,       \* array variables, name -> identity
    lastOp,      \* the last array operation and its operands
    fsys,        \* the .m files that exist, as directory and base name
    paths,       \* PathManager.paths
    cache,       \* PathManager._cache, name -> path
    resolved,    \* the last resolve() call and what it returned
    foldcase,    \* the file system ignores letter case in names
    pops,        \* path operations so far
    toks,        \* the tokens of the statement being parsed
    node,        \* the node Parser.statement() returned for them
    called,      \* the call made by running the generated code
    ppc,         \* position of the parse-and-run pipeline
    chars,       \* Tokenizer.text: the characters given to the tokenizer
    ubusy,       \* MainWindow._busy
    wk,          \* the kernel workers started so far, in order
    uiq,         \* signals queued for the UI thread
    reqs,        \* run requests so far
    lastReq,     \* what became of the last run request
    ws,          \* session.globals of the desktop host
    fcall,       \* a function's formal parameters and the actuals of a call
    flocals      \* the names bound when the function's body starts

kvars == <<globals, registered, files, pc, line, stdout, ret, retries,
           escaped, atload, ran, pre, calls>>
arrvars == <<heap, avars, lastOp>>
pathvars == <<fsys, paths, cache, resolved, foldcase, pops>>
parsevars == <<toks, node, called, ppc, chars>>
uivars == <<ubusy, wk, uiq, reqs, lastReq, ws>>
callvars == <<fcall, flocals>>
extvars == <<pathvars, parsevars, uivars, callvars>>
vars == <<globals, registered, files, pc, line, stdout, ret, retries,
          escaped, atload, ran, pre, calls, heap, avars, lastOp,
          fsys, paths, cache, resolved, foldcase, pops,
          toks, node, called, ppc, chars, ubusy, wk, uiq, reqs, lastReq, ws,
          fcall, flocals>>

----------------------------------------------------------------------------
(* Bounds *)

MaxCalls == 2        \* units read in one session
MaxNum == 3          \* largest number a workspace variable may hold
RecursionLimit == 3  \* nested execute() frames before the interpreter refuses
MaxIdx == 3          \* largest subscript of a two-subscript write
MaxLinear == 6       \* largest linear index written
MaxOps == 2          \* array statements in one behaviour
MaxPathOps == 5      \* path manager and file operations in one behaviour
MaxTokens == 3       \* tokens of a statement
MaxRequests == 3     \* run requests in one behaviour
MaxChars == 5        \* characters of a text given to the tokenizer
MaxFormals == 3      \* formal parameters of a function
MaxActuals == 3      \* actual arguments of a call

----------------------------------------------------------------------------
(* Values of the workspace *)

V(t, name, n) == [t |-> t, name |-> name, n |-> n, k |-> ""]
Num(n) == V("num", "", n)
Func(name) == V("func", name, 0)        \* function object made from <name>.m
Script(name) == V("script", name, 0)    \* script_runner made from <name>.m
Builtin(name) == V("builtin", name, 0)  \* callable supplied at reset
Def(name) == V("def", name, 0)          \* function made by a def statement
ExcObj(exc) == [t |-> "exc", name |-> exc.name, n |-> 0, k |-> exc.kind]
Const(name) == V("const", name, 0)      \* numeric constant supplied at reset
Module == V("module", "builtins", 0)
NoneVal == V("none", "", 0)

NoExc == [kind |-> "none", name |-> ""]
Raise(kind, name) == [kind |-> kind, name |-> name]

Bind(g, k, v) == [x \in (DOMAIN g) \cup {k} |-> IF x = k THEN v ELSE g[x]]
Del(g, k) == [x \in (DOMAIN g) \ {k} |-> g[x]]

\* exec() and eval() insert the interpreter's builtins module in the mapping
\* they are given when it has no such key
WithBuiltinsKey(g) ==
    IF "__builtins__" \in DOMAIN g THEN g ELSE Bind(g, "__builtins__", Module)

----------------------------------------------------------------------------
(* Session reset: protected partition *)

ResetGlobals ==
    [k \in {"e", "ans", "clear", "abs"} |->
        CASE k = "e" -> Const("e")
          [] k = "ans" -> Num(0)
          [] k = "abs" -> Builtin("abs")
          [] OTHER -> Builtin("clear")]

BuiltinsSet == DOMAIN ResetGlobals

\* KernelSession._clear_user(*args); names holds str(a) of every argument
ClearUser(g, names) ==
    LET should_clear_all ==
            names = <<>> \/ \E i \in 1..Len(names) : names[i] = "all"
        vars_to_clear ==
            {names[i] : i \in 1..Len(names)} \ {"classes", "functions", "import"}
    IN  IF should_clear_all
        THEN [k \in {x \in DOMAIN g : x \in BuiltinsSet \/ x = "ans"} |->
                 IF k \in BuiltinsSet THEN g[k] ELSE Num(0)]
        ELSE [k \in {x \in DOMAIN g :
                       ~(x \in vars_to_clear /\ x \notin BuiltinsSet)} |-> g[k]]

----------------------------------------------------------------------------
(* Files on the search path and the callables made from them *)

\* foo.m : function y = foo(x), y = x + 1
\* bar.m : function y = bar(x), y = foo(x)      (refers to another file)
\* scr.m : x = 2                                 (a script)
\* fz.m  : function y = fz(x), y = x + 1, end, print(7)
FileNames == {"foo", "bar", "scr", "fz"}

\* The top-level nodes of the code generated for <name>.m
FileCode(name) ==
    CASE name = "scr" -> <<[op |-> "assign", v |-> "x", f |-> "", a |-> 2]>>
      [] name = "fz" -> <<[op |-> "def", v |-> "fz", f |-> "", a |-> 0],
                          [op |-> "print", v |-> "", f |-> "", a |-> 7]>>
      [] OTHER -> <<[op |-> "def", v |-> name, f |-> "", a |-> 0]>>

\* tree.body and isinstance(tree.body[0], ast.FunctionDef)
is_function(name) == FileCode(name)[1].op = "def"

\* exec(py_code, scope) of a function file, in a fresh scope: every top-level
\* node of the file runs.  ran counts the nodes other than definitions, out
\* is what they print.
LoadExec(name) ==
    [ran |-> Cardinality({i \in 1..Len(FileCode(name)) : FileCode(name)[i].op # "def"}),
     out |-> [i \in 1..(Len(FileCode(name)) - 1) |->
                 [tag |-> "text", name |-> ToString(FileCode(name)[i + 1].a),
                  val |-> [t |-> "none", name |-> "", n |-> 0, k |-> ""], at |-> ""]]]

\* load_and_register(name): the new registry, whether an entry was made, and
\* what the file's own statements did while it was loaded
load_and_register(name, reg, fs) ==
    IF name \notin fs
    THEN [ok |-> FALSE, reg |-> reg, ran |-> 0, out |-> <<>>]
    ELSE IF is_function(name)
    THEN [ok |-> TRUE, reg |-> reg \cup {name},
          ran |-> LoadExec(name).ran, out |-> LoadExec(name).out]
    ELSE [ok |-> TRUE, reg |-> reg \cup {name}, ran |-> 0, out |-> <<>>]

\* registry.get(name).func for an entry made by load_and_register
EntryFunc(name) == IF is_function(name) THEN Func(name) ELSE Script(name)

Result(g, exc, val) == [g |-> g, exc |-> exc, val |-> val]

\* Calling the function object made from <name>.m.  Its globals are the
\* loader's private scope, so only its own definition is visible in the body.
CallFunc(name, args, g) ==
    CASE name = "foo" ->
            IF args # <<>> /\ args[1].t = "num"
            THEN Result(g, NoExc, Num(args[1].n + 1))
            ELSE Result(g, Raise("TypeError", "operand"), NoneVal)
      [] name = "bar" -> Result(g, Raise("NameError", "foo"), NoneVal)
      [] name = "fz" ->
            IF args # <<>> /\ args[1].t = "num"
            THEN Result(g, NoExc, Num(args[1].n + 1))
            ELSE Result(g, Raise("TypeError", "operand"), NoneVal)
      [] OTHER -> Result(g, Raise("TypeError", "operand"), NoneVal)

\* A variant that runs the script's code in a scope of its own
script_runner_private(name, target, g) ==
    IF target \in {"ws", "none"} THEN Result(g, NoExc, NoneVal)
    ELSE Result(g, Raise("TypeError", "globals"), NoneVal)

\* script_runner(globals_dict): exec(py_code, globals_dict); the argument is
\* "ws" for the session mapping, "none" for no argument, else a value
script_runner(name, target, g) ==
    CASE target = "ws" -> Result(Bind(WithBuiltinsKey(g), "x", Num(2)), NoExc, NoneVal)
      [] target = "none" -> Result(g, NoExc, NoneVal)
      [] OTHER -> Result(g, Raise("TypeError", "globals"), NoneVal)

\* value(*args) for a workspace value
CallValue(fv, args, g) ==
    CASE fv.t = "func" -> CallFunc(fv.name, args, g)
      [] fv.t = "script" ->
            script_runner(fv.name, IF args = <<>> THEN "none" ELSE "num", g)
      [] fv.t = "def" -> CallFunc("foo", args, g)    \* same body as foo.m
      [] fv.t = "builtin" /\ fv.name = "abs" ->
            \* def abs(x): one required positional parameter
            IF Len(args) # 1 THEN Result(g, Raise("TypeError", "missing"), NoneVal)
            ELSE IF args[1].t = "num" THEN Result(g, NoExc, args[1])
            ELSE Result(g, Raise("TypeError", "operand"), NoneVal)
      [] fv.t = "builtin" ->
            Result(ClearUser(g, [i \in 1..Len(args) |-> args[i].name]), NoExc, NoneVal)
      [] OTHER -> Result(g, Raise("TypeError", "callable"), NoneVal)

callable(v) == v.t \in {"func", "script", "builtin", "def"}

----------------------------------------------------------------------------
(* Units: the statements a unit is made of, after parsing *)

S(op, v, f, a) == [op |-> op, v |-> v, f |-> f, a |-> a]

StmtSet ==
    {S("assign", "x", "", 1)}                              \* x = 1
    \cup {S("incr", "x", "", 0)}                           \* x = x + 1
    \cup {S("assigncall", "y", f, 1) : f \in {"foo", "bar"}}   \* y = foo(1)
    \cup {S("call", "", f, 1) : f \in {"foo", "q", "g", "fz"}}   \* foo(1)
    \cup {S("name", v, "", 0) : v \in {"x", "scr", "abs"}} \* x
    \cup {S("clear", "foo", "", 0)}                        \* clear foo
    \cup {S("clearall", "", "", 0)}                        \* clear
    \cup {S("try", cv, "q", 1) : cv \in {"e", "ans"}}      \* try; q(1); catch e; end
    \cup {S("raise", "z", "IndexError", 0)}                \* z = e(9)
    \cup {S("syntax", "", "", 0)}                          \* x = 1, y
    \cup {S("def", "g", "", 0)}        \* function y = g(x), y = x + 1, end

\* Statements that come first in a unit of two
FirstStmts ==
    {S("assign", "x", "", 1), S("incr", "x", "", 0), S("clear", "foo", "", 0),
     S("def", "g", "", 0)}

\* A unit is one statement or two, with or without a trailing ';'
Units == {[stmts |-> q, semi |-> b] :
             q \in {<<s>> : s \in StmtSet} \cup (FirstStmts \X StmtSet),
             b \in BOOLEAN}

----------------------------------------------------------------------------
(* Transpiled code and its execution against the workspace *)

\* transpile(code): a unit that does not parse becomes one raise statement
transpile(stmts) ==
    IF \E i \in 1..Len(stmts) : stmts[i].op = "syntax"
    THEN <<S("raise", "", "SyntaxError", 0)>>
    ELSE stmts

\* ast.Expr / ast.Assign with a Name target, of the generated code
IsExpr(s) == s.op \in {"name", "call", "clear", "clearall"}
IsAssignName(s) ==
    s.op \in {"assign", "incr", "assigncall"} \/ (s.op = "raise" /\ s.v # "")

\* Value of an expression statement
Eval(s, g) ==
    CASE s.op = "name" ->
            IF s.v \in DOMAIN g THEN Result(g, NoExc, g[s.v])
            ELSE Result(g, Raise("NameError", s.v), NoneVal)
      [] s.op = "call" ->
            IF s.f \in DOMAIN g THEN CallValue(g[s.f], <<Num(s.a)>>, g)
            ELSE Result(g, Raise("NameError", s.f), NoneVal)
      [] s.op = "clear" ->
            IF "clear" \in DOMAIN g
            THEN CallValue(g["clear"], <<V("str", s.v, 0)>>, g)
            ELSE Result(g, Raise("NameError", "clear"), NoneVal)
      [] s.op = "clearall" ->
            IF "clear" \in DOMAIN g THEN CallValue(g["clear"], <<>>, g)
            ELSE Result(g, Raise("NameError", "clear"), NoneVal)
      [] OTHER -> Result(g, NoExc, NoneVal)

\* An assignment from a call, or a try block around one; r is what the
\* call gave.  try: f(a) / except Exception as v: pass -- the handler's
\* name is unbound again when the handler is left
AfterCall(s, r) ==
    CASE s.op = "assigncall" ->
            IF r.exc = NoExc THEN Result(Bind(r.g, s.v, r.val), NoExc, NoneVal)
            ELSE Result(r.g, r.exc, NoneVal)
      [] s.op = "try" ->
            IF r.exc = NoExc THEN Result(r.g, NoExc, NoneVal)
            ELSE Result(Del(r.g, s.v), NoExc, NoneVal)
      [] OTHER -> Result(r.g, r.exc, NoneVal)

\* One generated statement run by exec()
ExecStmt(s, g) ==
    CASE s.op = "assign" -> Result(Bind(g, s.v, Num(s.a)), NoExc, NoneVal)
      [] s.op = "incr" ->
            IF s.v \notin DOMAIN g THEN Result(g, Raise("NameError", s.v), NoneVal)
            ELSE IF g[s.v].t = "num"
                 THEN Result(Bind(g, s.v, Num(g[s.v].n + 1)), NoExc, NoneVal)
                 ELSE Result(g, Raise("TypeError", "operand"), NoneVal)
      [] s.op = "raise" -> Result(g, Raise(s.f, ""), NoneVal)
      [] s.op = "def" -> Result(Bind(g, s.v, Def(s.v)), NoExc, NoneVal)
      [] OTHER ->
            AfterCall(s, Eval(IF s.op \in {"assigncall", "try"}
                              THEN S("call", "", s.f, s.a) ELSE s, g))

\* exec() of a statement list: statement by statement against the live
\* mapping; ran counts the statements that completed
RECURSIVE ExecBody(_, _)
RECURSIVE ExecRest(_, _)
ExecBody(stmts, g) ==
    IF stmts = <<>> THEN [g |-> g, exc |-> NoExc, ran |-> 0]
    ELSE ExecRest(Tail(stmts), ExecStmt(Head(stmts), g))

\* r is the outcome of the statement before rest
ExecRest(rest, r) ==
    IF r.exc # NoExc THEN [g |-> r.g, exc |-> r.exc, ran |-> 0]
    ELSE [ExecBody(rest, r.g) EXCEPT !.ran = @ + 1]

\* A variant that runs the statements on a copy and keeps the copy only
\* when every statement completed
ExecModule_rollback(stmts, g) ==
    IF stmts = <<>> THEN [g |-> g, exc |-> NoExc, ran |-> 0]
    ELSE IF ExecBody(stmts, WithBuiltinsKey(g)).exc # NoExc
    THEN [ExecBody(stmts, WithBuiltinsKey(g)) EXCEPT !.g = g]
    ELSE ExecBody(stmts, WithBuiltinsKey(g))

ExecModule(stmts, g) ==
    IF stmts = <<>> THEN [g |-> g, exc |-> NoExc, ran |-> 0]
    ELSE ExecBody(stmts, WithBuiltinsKey(g))

----------------------------------------------------------------------------
(* execute(code, session) *)

\* A printed line; at is the text after "Line " in a diagnostic, if any
OutValue(name, val) == [tag |-> "value", name |-> name, val |-> val, at |-> ""]
OutText(text) == [tag |-> "text", name |-> text, val |-> NoneVal, at |-> ""]

\* getattr(stmt, 'lineno', None) for a node built by the parser: the node
\* classes declare no such attribute and the parser sets none.  <<>> is None.
lineno(s) == <<>>

\* Lines of generated code of one statement, and the statements nested in it
\* that are appended through _append_stmt
GenLines(s) == CASE s.op = "try" -> 4 [] s.op = "def" -> 5 [] OTHER -> 1
Nested(s) ==
    CASE s.op = "try" -> <<S("call", "", s.f, s.a)>>
      [] s.op = "def" -> <<S("assign", "y", "", 0)>>
      [] OTHER -> <<>>

\* Generated lines before statement k
RECURSIVE LinesBefore(_, _)
LinesBefore(py, k) ==
    IF k <= 1 THEN 0 ELSE LinesBefore(py, k - 1) + GenLines(py[k - 1])

\* current_py_line - 1 when _append_stmt is entered for statement k: the
\* counter is advanced once by the nested call and once more by the outer one
RECURSIVE CounterBefore(_, _)
CounterBefore(py, k) ==
    IF k <= 1 THEN 0
    ELSE CounterBefore(py, k - 1) + Len(Nested(py[k - 1])) + GenLines(py[k - 1])

\* The pairs _append_stmt records for the top-level statements of py
LineEntries(py) ==
    UNION {
        {<<CounterBefore(py, k) + i, lineno(Nested(py[k])[i])>> :
            i \in {j \in 1..Len(Nested(py[k])) : lineno(Nested(py[k])[j]) # <<>>}}
        \cup
        {<<CounterBefore(py, k) + Len(Nested(py[k])) + i, lineno(py[k])>> :
            i \in {j \in 1..GenLines(py[k]) : lineno(py[k]) # <<>>}}
        : k \in 1..Len(py)}

\* The line map returned by transpile(code): generated line -> source line
line_map(code) ==
    IF \E i \in 1..Len(code) : code[i].op = "syntax"
    THEN [l \in {} |-> 0]
    ELSE [l \in {e[1] : e \in LineEntries(code)} |->
             (CHOOSE e \in LineEntries(code) : e[1] = l)[2][1]]

\* Lines of a loaded function's code before its body: def, nargin, one
\* line per parameter
HeaderLines(nargs) == 2 + nargs

\* frame.lineno of the last traceback frame in generated code; k is the
\* failing statement.  An exception raised in the body of a loaded function
\* has its last such frame in that function's own code.
py_line(py, k, g) ==
    IF py[k].op \in {"call", "assigncall"} /\ py[k].f \in DOMAIN g
          /\ g[py[k].f].t = "func"
    THEN HeaderLines(1) + 1
    ELSE LinesBefore(py, k) + 1

\* m_line = line_map.get(py_line, "?")
m_line(map, l) == IF l \in DOMAIN map THEN ToString(map[l]) ELSE "?"

\* _handle_matlab_error: one diagnostic line for the exception
OutError(exc, at) ==
    [tag |-> "error", name |-> exc.name, val |-> ExcObj(Raise(exc.kind, "")),
     at |-> at]

Attempt(g, out, exc, n) == [g |-> g, out |-> out, exc |-> exc, ran |-> n]

\* "required", "missing" or "argument" occurs in the TypeError's message
MentionsArguments(exc) == exc.kind = "TypeError" /\ exc.name = "missing"

\* is_cmd: the value is a script runner, or a callable named without
\* parentheses
is_cmd(value, last) ==
    value.t = "script" \/ (callable(value) /\ last.op = "name")

\* value(session.globals) for a script, value() for a command; r is what
\* the call gave
CommandCall(py, is_script, r) ==
    IF ~is_script /\ MentionsArguments(r.exc)
    THEN Attempt(r.g, <<OutText("Error: Not enough input arguments.")>>,
                 NoExc, Len(py))
    ELSE Attempt(r.g, <<>>, r.exc, Len(py) - 1)

\* What execute() does with e, the outcome of eval() of the last expression
LastValue(py, suppress, e) ==
    IF e.exc # NoExc THEN Attempt(e.g, <<>>, e.exc, Len(py) - 1)
    ELSE IF callable(e.val) /\ is_cmd(e.val, py[Len(py)])
    THEN CommandCall(py, e.val.t = "script",
                     IF e.val.t = "script"
                     THEN script_runner(e.val.name, "ws", e.g)
                     ELSE CallValue(e.val, <<>>, e.g))
    ELSE IF e.val # NoneVal
    THEN Attempt(Bind(e.g, "ans", e.val),
                 IF suppress THEN <<>> ELSE <<OutValue("ans", e.val)>>,
                 NoExc, Len(py))
    ELSE Attempt(e.g, <<>>, NoExc, Len(py))

\* b is the outcome of exec() of the statements before the last expression
AfterBody(py, suppress, b) ==
    IF b.exc # NoExc THEN Attempt(b.g, <<>>, b.exc, b.ran)
    ELSE LastValue(py, suppress, Eval(py[Len(py)], WithBuiltinsKey(b.g)))

\* The branch for a unit whose last construct is a bare expression
FinalExpression(py, suppress, g) ==
    AfterBody(py, suppress, ExecModule(SubSeq(py, 1, Len(py) - 1), g))

\* The echo of a single assignment; b is the outcome of exec() of the unit
EchoAssign(py, suppress, b) ==
    IF b.exc # NoExc THEN Attempt(b.g, <<>>, b.exc, b.ran)
    ELSE IF ~suppress /\ Len(py) = 1 /\ IsAssignName(py[1])
    THEN Attempt(b.g,
                 <<OutValue(py[1].v,
                            IF py[1].v \in DOMAIN b.g THEN b.g[py[1].v] ELSE NoneVal)>>,
                 NoExc, b.ran)
    ELSE Attempt(b.g, <<>>, NoExc, b.ran)

\* The branch for a unit of statements only
StatementsOnly(py, suppress, g) == EchoAssign(py, suppress, ExecModule(py, g))

\* The branch for a unit whose first construct is a function definition:
\* exec() of the whole unit; b is its outcome
FunctionDefinitions(py, b) == Attempt(b.g, <<>>, b.exc, b.ran)

\* Definition, final expression or statements only, by the first and the
\* last node of the parsed code
Classify(py, suppress, g) ==
    IF py[1].op = "def" THEN FunctionDefinitions(py, ExecModule(py, g))
    ELSE IF IsExpr(py[Len(py)]) THEN FinalExpression(py, suppress, g)
    ELSE StatementsOnly(py, suppress, g)

\* The try block of execute(): transpile, classify, run
TryBlock(code, suppress, g) == Classify(transpile(code), suppress, g)

Outcome(g, reg, out, r, n, ranCount) ==
    [g |-> g, reg |-> reg, out |-> out, ret |-> r, retries |-> n,
     ran |-> ranCount, escaped |-> FALSE, atload |-> 0]

\* A variant of the handler that registers the entry but leaves the
\* workspace as it was
BindEntry_skip(g, var_name) == g

\* session.globals[var_name] = entry.func
BindEntry(g, var_name) == Bind(g, var_name, EntryFunc(var_name))

\* The report of a failure: the diagnostic is printed and returned
Reported(code, t, g, reg) ==
    Outcome(g, reg,
            t.out \o <<OutError(t.exc, m_line(line_map(code),
                                              py_line(transpile(code), t.ran + 1, t.g)))>>,
            ExcObj(t.exc), 0, t.ran)

\* execute(code, session) at nesting depth d; unit.semi is the trailing ';'
RECURSIVE execute(_, _, _, _, _)
RECURSIVE Handlers(_, _, _, _, _)
execute(unit, g, reg, fs, d) ==
    Handlers(unit.stmts, TryBlock(unit.stmts, unit.semi, g), reg, fs, d)

\* The except clauses of execute(); t is the outcome of the try block and
\* code the text without its trailing ';'
Handlers(code, t, reg, fs, d) ==
    IF t.exc = NoExc THEN Outcome(t.g, reg, t.out, NoneVal, 0, t.ran)
    ELSE IF t.exc.kind = "NameError"
               /\ load_and_register(t.exc.name, reg, fs).ok
    THEN IF d < RecursionLimit
         THEN [execute([stmts |-> code, semi |-> FALSE],
                       BindEntry(t.g, t.exc.name),
                       load_and_register(t.exc.name, reg, fs).reg, fs, d + 1)
                 EXCEPT !.out = t.out \o load_and_register(t.exc.name, reg, fs).out \o @,
                        !.retries = @ + 1,
                        !.atload = @ + load_and_register(t.exc.name, reg, fs).ran]
         \* the nested call cannot start; the failure is swallowed by
         \* the handler's own except clause
         ELSE [Reported(code, [t EXCEPT !.out = @ \o load_and_register(t.exc.name, reg, fs).out],
                        BindEntry(t.g, t.exc.name),
                        load_and_register(t.exc.name, reg, fs).reg)
                 EXCEPT !.atload = load_and_register(t.exc.name, reg, fs).ran]
    ELSE Reported(code, t, t.g, reg)

----------------------------------------------------------------------------
(* The array value: MatlabArray (math/arrays.py), dense storage *)

\* A number, in halves so that 2.5 is representable: re2 = 2 * real part
Elem(re2, im2) == [re2 |-> re2, im2 |-> im2]
Zero == Elem(0, 0)

\* sparse is the storage tag: scipy.sparse.issparse(self._data)
Arr(shape, dtype, data) ==
    [shape |-> shape, dtype |-> dtype, data |-> data, sparse |-> FALSE]

Coords(shape) ==
    IF Len(shape) = 2
    THEN {<<i, j>> : i \in 0..(shape[1] - 1), j \in 0..(shape[2] - 1)}
    ELSE {<<i, j, k>> : i \in 0..(shape[1] - 1), j \in 0..(shape[2] - 1),
                        k \in 0..(shape[3] - 1)}

Size(shape) ==
    IF Len(shape) = 2 THEN shape[1] * shape[2] ELSE shape[1] * shape[2] * shape[3]

\* Column-major position of a coordinate, and back
Ravel(c, shape) ==
    IF Len(shape) = 2 THEN c[1] + shape[1] * c[2]
    ELSE c[1] + shape[1] * c[2] + shape[1] * shape[2] * c[3]

Unravel(p, shape) ==
    IF Len(shape) = 2 THEN <<p % shape[1], p \div shape[1]>>
    ELSE <<p % shape[1], (p \div shape[1]) % shape[2], p \div (shape[1] * shape[2])>>

\* Storing a Python scalar in a buffer of the given element type
CanStore(v, dtype) == dtype = "complex" \/ v.im2 = 0
Cast(v, dtype) ==
    IF dtype = "int" THEN Elem((v.re2 \div 2) * 2, 0) ELSE v

\* mat([[1, 2, 3]]), mat([[1, 2], [3, 4]]), mat([[1.5], [2.5]])
Row123 == Arr(<<1, 3>>, "int",
              [c \in Coords(<<1, 3>>) |-> Elem(2 * (c[2] + 1), 0)])
M22 == Arr(<<2, 2>>, "int",
           [c \in Coords(<<2, 2>>) |-> Elem(2 * (2 * c[1] + c[2] + 1), 0)])
Col == Arr(<<2, 1>>, "float",
           [c \in Coords(<<2, 1>>) |-> Elem(2 * c[1] + 3, 0)])
Literals == {Row123, M22, Col}

\* sparse(A): MatlabArray(scipy.sparse.csr_matrix(val)), and full(S)
sparse(a) == [a EXCEPT !.sparse = TRUE]
full(a) == [a EXCEPT !.sparse = FALSE]

\* MatlabArray.__getattr__ answers hasattr(A, 'copy'): the class defines no
\* copy, so only a 1x1 object array wrapping something with that attribute has it
hasattr_copy(a) == a.dtype = "object" /\ Size(a.shape) = 1

\* Row-major position of a coordinate of a matrix, and back: the order of
\* reshape((-1, 1)) of a scipy sparse matrix, whose default order is 'C'
UnravelC(p, shape) == <<p \div shape[2], p % shape[2]>>

\* The coordinate of the element at 0-based position p of the flattened
\* array: flatten(order='F') for dense, reshape((-1, 1)) for sparse storage
Flat(a, p) == IF a.sparse THEN UnravelC(p, a.shape) ELSE Unravel(p, a.shape)

\* A(i): MatlabArray.__call__ with one numeric scalar subscript
ReadLinear(a, i) ==
    LET idx == i - 1
        n == Size(a.shape)
    IN  IF idx >= n \/ idx < 0 - n THEN [exc |-> "IndexError", val |-> Zero]
        ELSE [exc |-> "none",
              val |-> a.data[Flat(a, IF idx < 0 THEN idx + n ELSE idx)]]

\* A(:): every element, flattened, as a column
ReadColon(a) ==
    [exc |-> "none", val |-> [p \in 1..Size(a.shape) |-> a.data[Flat(a, p - 1)]]]

\* A(end): the element at position size - 1 of the flattened array
ReadEnd(a) ==
    IF Size(a.shape) = 0 THEN [exc |-> "IndexError", val |-> <<>>]
    ELSE [exc |-> "none", val |-> <<a.data[Flat(a, Size(a.shape) - 1)]>>]

\* A(i, j, ...): self._data[np.ix_(...)] with one index per subscript; a
\* negative index counts from the end of its dimension
Wrap(idx, n) == IF idx < 0 THEN idx + n ELSE idx
ReadND(a, args) ==
    IF \/ Len(args) > Len(a.shape)
       \/ \E d \in 1..Len(args) :
              args[d] - 1 >= a.shape[d] \/ args[d] - 1 < 0 - a.shape[d]
    THEN [exc |-> "IndexError", val |-> <<>>]
    ELSE LET hit == {c \in Coords(a.shape) :
                        \A d \in 1..Len(args) : c[d] = Wrap(args[d] - 1, a.shape[d])}
         IN  [exc |-> "none",
              val |-> [k \in 1..Cardinality(hit) |->
                          a.data[CHOOSE c \in hit :
                                    Cardinality({b \in hit :
                                        Ravel(b, a.shape) < Ravel(c, a.shape)}) = k - 1]]]

\* MatlabArray.__call__(*args): the elements read, in order
Read(a, sub) ==
    CASE sub.kind = "colon" -> ReadColon(a)
      [] sub.kind = "end" -> ReadEnd(a)
      [] sub.kind = "scalar" /\ Len(sub.args) = 1 ->
            [exc |-> ReadLinear(a, sub.args[1]).exc,
             val |-> IF ReadLinear(a, sub.args[1]).exc = "none"
                     THEN <<ReadLinear(a, sub.args[1]).val>> ELSE <<>>]
      [] OTHER -> ReadND(a, sub.args)

AResult(a, exc) == [a |-> a, exc |-> exc]

\* Step 2 of set_val: the plain assignment, py_indices being 0-based
PlainAssign(a, v, py_indices) ==
    LET n == Len(py_indices)
        m == Len(a.shape)
    IN  IF a.sparse /\ n = 1
        \* csr_matrix[(idx,)] = val: idx is a row index
        THEN IF py_indices[1] >= a.shape[1] \/ py_indices[1] < 0 - a.shape[1]
             THEN AResult(a, "IndexError")
             ELSE IF ~CanStore(v, a.dtype) THEN AResult(a, "TypeError")
             ELSE AResult([a EXCEPT !.data =
                              [c \in Coords(a.shape) |->
                                  IF c[1] = Wrap(py_indices[1], a.shape[1])
                                  THEN Cast(v, a.dtype) ELSE a.data[c]]], "none")
        ELSE IF n = 1 /\ m = 2
        THEN IF py_indices[1] >= Size(a.shape) \/ py_indices[1] < 0 - Size(a.shape)
             THEN AResult(a, "IndexError")
             ELSE IF ~CanStore(v, a.dtype) THEN AResult(a, "TypeError")
             ELSE AResult([a EXCEPT !.data[Unravel(IF py_indices[1] < 0
                                                    THEN py_indices[1] + Size(a.shape)
                                                    ELSE py_indices[1], a.shape)] =
                                        Cast(v, a.dtype)], "none")
        ELSE IF n > m \/ \E d \in 1..n : py_indices[d] >= a.shape[d]
             THEN AResult(a, "IndexError")
             ELSE IF ~CanStore(v, a.dtype) THEN AResult(a, "TypeError")
             ELSE AResult([a EXCEPT !.data =
                              [c \in Coords(a.shape) |->
                                  IF SubSeq(c, 1, n) = py_indices
                                  THEN Cast(v, a.dtype) ELSE a.data[c]]], "none")

\* Step 3, linear subscript beyond the element count: a longer vector
ExpandLinear(a, req_size) ==
    LET newshape == IF a.shape[2] = 1 /\ a.shape[1] > 0
                    THEN <<req_size, 1>> ELSE <<1, req_size>>
        old == Size(a.shape)
    IN  Arr(newshape, a.dtype,
            [c \in Coords(newshape) |->
                LET p == Ravel(c, newshape)
                IN  IF p < old THEN a.data[Unravel(p, a.shape)] ELSE Zero])

Max(x, y) == IF x >= y THEN x ELSE y

\* Step 3, the shape wanted by the subscripts
NewShape(shape, required_shape) ==
    LET n == Max(Len(shape), Len(required_shape))
    IN  [d \in 1..n |->
            LET cur == IF d <= Len(shape) THEN shape[d] ELSE 1
            IN  IF d <= Len(required_shape) /\ required_shape[d] > 0
                THEN Max(cur, required_shape[d]) ELSE cur]

\* expanded[source_slices] = self._data: the slices cover the old dimensions
\* only, so for a new trailing dimension the old buffer is broadcast into it
CanBroadcast(shape, newshape) ==
    Len(newshape) = Len(shape)
    \/ /\ (shape[1] = shape[2] \/ shape[1] = 1)
       /\ (shape[2] = newshape[3] \/ shape[2] = 1)

ExpandND(a, newshape) ==
    Arr(newshape, a.dtype,
        [c \in Coords(newshape) |->
            IF \E d \in 1..Len(a.shape) : c[d] >= a.shape[d] THEN Zero
            ELSE IF Len(newshape) = Len(a.shape) THEN a.data[c]
            ELSE a.data[<<IF a.shape[1] = 1 THEN 0 ELSE c[2],
                          IF a.shape[2] = 1 THEN 0 ELSE c[3]>>]])

\* The subscripts of one indexed assignment: numeric scalars (1-based), the
\* single subscript 'end', or a single logical row vector of len elements
Sub(kind, args, len) == [kind |-> kind, args |-> args, len |-> len]

\* Step 1 of set_val: the 0-based indices and the bounds they ask for
py_indices(sub, a) ==
    CASE sub.kind = "scalar" -> [d \in 1..Len(sub.args) |-> sub.args[d] - 1]
      [] sub.kind = "end" -> <<Size(a.shape) - 1>>
      [] OTHER -> <<>>

required_shape(sub, a) ==
    CASE sub.kind = "scalar" -> [d \in 1..Len(sub.args) |-> sub.args[d]]
      [] sub.kind = "end" -> <<Size(a.shape)>>
      [] OTHER -> <<0>>

\* flat[idx] = val_data with idx a logical row vector: the mask has two
\* dimensions and the flattened buffer one, which numpy refuses
MaskAssign(a, v, len) == AResult(a, "IndexError")

\* Steps 2 and 3 of set_val at nesting depth d: the plain assignment and, when
\* it raises IndexError, the expansion followed by self.set_val(value, *args)
RECURSIVE set_val_at(_, _, _, _)
set_val_at(a, v, sub, d) ==
    LET is_linear == Len(required_shape(sub, a)) = 1
        first == IF sub.kind = "mask" THEN MaskAssign(a, v, sub.len)
                 ELSE PlainAssign(a, v, py_indices(sub, a))
        new_shape == NewShape(a.shape, required_shape(sub, a))
    IN  IF first.exc # "IndexError" THEN first
        \* if self.is_sparse: raise IndexError("Sparse matrix dynamic expansion
        \* not yet supported.")
        ELSE IF a.sparse THEN AResult(a, "IndexError")
        \* the interpreter refuses a further frame
        ELSE IF d >= RecursionLimit THEN AResult(a, "RecursionError")
        ELSE IF is_linear /\ required_shape(sub, a)[1] > Size(a.shape)
        THEN set_val_at(ExpandLinear(a, required_shape(sub, a)[1]), v, sub, d + 1)
        ELSE IF ~CanBroadcast(a.shape, new_shape) THEN AResult(a, "ValueError")
        ELSE set_val_at(ExpandND(a, new_shape), v, sub, d + 1)

\* MatlabArray.set_val(value, *args) with numeric scalar subscripts (1-based)
set_val(a, v, args) ==
    IF \E d \in 1..Len(args) : args[d] - 1 < 0 THEN AResult(a, "IndexError")
    ELSE set_val_at(a, v, Sub("scalar", args, 0), 0)

\* MatlabArray.set_val(value, 'end') and MatlabArray.set_val(value, mask)
set_val_special(a, v, sub) == set_val_at(a, v, sub, 0)

----------------------------------------------------------------------------
(* Array variables: assignments as the transpiler generates them *)

ArrNames == {"A", "B"}
Values == {Elem(10, 0), Elem(5, 0), Elem(2, 2)}     \* 5, 2.5, 1+1i

Subscripts ==
    {<<i>> : i \in 1..MaxLinear}
    \cup {<<i, j>> : i \in 1..MaxIdx, j \in 1..MaxIdx}
    \cup {<<i, j, k>> : i \in 1..2, j \in 1..2, k \in 1..2}

NoArr == Arr(<<1, 0>>, "float", [c \in Coords(<<1, 0>>) |-> Zero])

\* The contents every bound variable denotes
Deref(h, av) == [n \in DOMAIN av |-> h[av[n].id]]

\* Objects no variable refers to are released
Collect(h, av) == [i \in {av[n].id : n \in DOMAIN av} |-> h[i]]

FreshId(h) == CHOOSE i \in 1..(Cardinality(DOMAIN h) + 1) : i \notin DOMAIN h

Op(op, name, v, args, exc, count) ==
    [op |-> op, name |-> name, v |-> v, args |-> args, exc |-> exc,
     before |-> Deref(heap, avars), count |-> count]

\* A session in which A holds a matrix literal and B is unbound
ArrInit ==
    /\ heap \in {[i \in {1} |-> lit] : lit \in Literals}
    /\ avars = [n \in {"A"} |-> [id |-> 1, src |-> ""]]
    /\ lastOp = [op |-> "none", name |-> "", v |-> Zero, args |-> <<>>,
                 exc |-> "none", before |-> [n \in {} |-> NoArr], count |-> 0]

\* The arrays of the session SpecArr does not drive
ArrIdle ==
    /\ heap = [i \in {} |-> NoArr]
    /\ avars = [n \in {} |-> [id |-> 0, src |-> ""]]
    /\ lastOp = [op |-> "none", name |-> "", v |-> Zero, args |-> <<>>,
                 exc |-> "none", before |-> [n \in {} |-> NoArr], count |-> 0]

\* Rebinding name ends what was known about copies of its old value
Rebind(av, name, id, src) ==
    [n \in (DOMAIN av) \cup {name} |->
        IF n = name THEN [id |-> id, src |-> src]
        ELSE IF av[n].src = name THEN [av[n] EXCEPT !.src = ""] ELSE av[n]]

\* name = [1 2 3]  ->  name = mat([[1, 2, 3]])
Create(name, lit) ==
    /\ lastOp.count < MaxOps
    /\ LET id == FreshId(heap)
           av == Rebind(avars, name, id, "")
       IN  /\ avars' = av
           /\ heap' = Collect(Bind(heap, id, lit), av)
    /\ lastOp' = Op("create", name, Zero, <<>>, "none", lastOp.count + 1)
    /\ UNCHANGED <<kvars, extvars>>

\* dst = src  ->  dst = src.copy() if hasattr(src, 'copy') else src
AssignVar(dst, src) ==
    /\ lastOp.count < MaxOps
    /\ src \in DOMAIN avars
    /\ dst # src
    /\ LET a == heap[avars[src].id]
           id == IF hasattr_copy(a) THEN FreshId(heap) ELSE avars[src].id
           av == Rebind(avars, dst, id, src)
       IN  /\ avars' = av
           /\ heap' = Collect(Bind(heap, id, a), av)
    /\ lastOp' = Op("assign", dst, Zero, <<>>, "none", lastOp.count + 1)
    /\ UNCHANGED <<kvars, extvars>>

\* name(args) = v  ->  try: name / except NameError: name = mat([]) /
\*                     name.set_val(v, args)
IndexedAssign(name, v, args) ==
    /\ lastOp.count < MaxOps
    /\ LET made == name \notin DOMAIN avars
           id == IF made THEN FreshId(heap) ELSE avars[name].id
           av == IF made THEN Rebind(avars, name, id, "") ELSE avars
           h == IF made THEN Bind(heap, id, NoArr) ELSE heap
           r == set_val(h[id], v, args)
       IN  /\ avars' = av
           /\ heap' = [h EXCEPT ![id] = r.a]
           /\ lastOp' = Op("set", name, v, args, r.exc, lastOp.count + 1)
    /\ UNCHANGED <<kvars, extvars>>

\* name(end) = v, and name(mask) = v with a logical row vector one element
\* longer than the array
Specials == {"end", "mask"}

IndexedAssignSpecial(name, v, kind) ==
    /\ lastOp.count < MaxOps
    /\ LET made == name \notin DOMAIN avars
           id == IF made THEN FreshId(heap) ELSE avars[name].id
           av == IF made THEN Rebind(avars, name, id, "") ELSE avars
           h == IF made THEN Bind(heap, id, NoArr) ELSE heap
           sub == Sub(kind, <<>>, IF kind = "mask" THEN Size(h[id].shape) + 1 ELSE 0)
           r == set_val_special(h[id], v, sub)
       IN  /\ avars' = av
           /\ heap' = [h EXCEPT ![id] = r.a]
           /\ lastOp' = Op("set" \o sub.kind, name, v, <<sub.len>>, r.exc,
                           lastOp.count + 1)
    /\ UNCHANGED <<kvars, extvars>>

\* The text _handle_matlab_error prints for an exception raised by an array
\* operation; a ValueError of the array carries a broadcast or shape message
matlab_message(exc) ==
    CASE exc = "IndexError" -> "Index exceeds the number of array elements."
      [] exc = "ValueError" -> "Matrix dimensions must agree."
      [] OTHER -> exc

\* The subscripts of a read: one or two numbers, end, or the colon
ReadSubscripts ==
    {Sub("scalar", <<i>>, 0) : i \in (0 - MaxIdx)..(MaxLinear + 1)}
    \cup {Sub("scalar", <<i, j>>, 0) : i \in (0 - 1)..MaxIdx, j \in (0 - 1)..MaxIdx}
    \cup {Sub("end", <<>>, 0), Sub("colon", <<>>, 0)}

\* name(args) as an expression  ->  name(args): MatlabArray.__call__
IndexedRead(name, sub) ==
    /\ lastOp.count < MaxOps
    /\ name \in DOMAIN avars
    /\ lastOp' = Op("get" \o sub.kind, name, Read(heap[avars[name].id], sub).val,
                    sub.args, Read(heap[avars[name].id], sub).exc, lastOp.count + 1)
    /\ UNCHANGED <<heap, avars>>
    /\ UNCHANGED <<kvars, extvars>>

\* A session in which A holds a matrix literal or sparse(literal)
IdxInit ==
    /\ heap \in {[i \in {1} |-> a] : a \in Literals \cup {sparse(lit) : lit \in Literals}}
    /\ avars = [n \in {"A"} |-> [id |-> 1, src |-> ""]]
    /\ lastOp = [op |-> "none", name |-> "", v |-> Zero, args |-> <<>>,
                 exc |-> "none", before |-> [n \in {} |-> NoArr], count |-> 0]

\* Reads of any array, and indexed writes to the sparse one
NextIdx ==
    \/ \E n \in ArrNames, sub \in ReadSubscripts : IndexedRead(n, sub)
    \/ \E n \in {x \in DOMAIN avars : heap[avars[x].id].sparse},
          v \in Values, args \in Subscripts : IndexedAssign(n, v, args)

NextArr ==
    \/ \E n \in ArrNames, lit \in Literals : Create(n, lit)
    \/ \E d \in ArrNames, src \in ArrNames : AssignVar(d, src)
    \/ \E n \in ArrNames, v \in Values, args \in Subscripts : IndexedAssign(n, v, args)
    \/ \E n \in ArrNames, v \in Values, k \in Specials : IndexedAssignSpecial(n, v, k)

----------------------------------------------------------------------------
(* The search path: PathManager (kernel/path_manager.py) *)

Cwd == "cwd"                   \* os.getcwd()
Dirs == {"p1", "p2"}           \* directories given to addpath / rmpath
FileBases == {"scr"}           \* base names of the files that may exist
Requested == {"scr", "SCR"}    \* names asked for

Lower(n) == IF n = "SCR" THEN "scr" ELSE n

\* os.path.join(d, f"{name}.m")
Path(d, name) == [dir |-> d, file |-> name]
NoPath == [dir |-> "", file |-> ""]     \* None

\* os.path.exists(os.path.join(d, f"{name}.m"))
exists(fs, fold, d, name) ==
    \E f \in fs : f.dir = d /\ (f.file = name \/ (fold /\ Lower(f.file) = Lower(name)))

InSeq(x, q) == \E i \in 1..Len(q) : q[i] = x
Remove(q, x) == SelectSeq(q, LAMBDA y : y # x)

PathIdle ==
    /\ fsys = {}
    /\ paths = <<>>
    /\ cache = [n \in {} |-> NoPath]
    /\ resolved = [name |-> "", result |-> NoPath, fresh |-> FALSE]
    /\ foldcase = FALSE
    /\ pops = 0

PathInit ==
    /\ fsys = {}
    /\ paths = <<>>
    /\ cache = [n \in {} |-> NoPath]
    /\ resolved = [name |-> "", result |-> NoPath, fresh |-> FALSE]
    /\ foldcase \in BOOLEAN
    /\ pops = 0

PathStep ==
    /\ pops < MaxPathOps
    /\ pops' = pops + 1
    /\ UNCHANGED <<foldcase, kvars, arrvars, parsevars, uivars, callvars>>

\* PathManager.add_path(d)
add_path(d) ==
    /\ PathStep
    /\ IF ~InSeq(d, paths)
       THEN paths' = Append(paths, d) /\ cache' = [n \in {} |-> NoPath]
       ELSE UNCHANGED <<paths, cache>>
    /\ resolved' = [resolved EXCEPT !.fresh = FALSE]
    /\ UNCHANGED fsys

\* PathManager.remove_path(d)
remove_path(d) ==
    /\ PathStep
    /\ IF InSeq(d, paths)
       THEN paths' = Remove(paths, d) /\ cache' = [n \in {} |-> NoPath]
       ELSE UNCHANGED <<paths, cache>>
    /\ resolved' = [resolved EXCEPT !.fresh = FALSE]
    /\ UNCHANGED fsys

\* A file <base>.m appears in, or disappears from, a directory
CreateFile(d, base) ==
    /\ PathStep
    /\ Path(d, base) \notin fsys
    /\ fsys' = fsys \cup {Path(d, base)}
    /\ resolved' = [resolved EXCEPT !.fresh = FALSE]
    /\ UNCHANGED <<paths, cache>>

DeleteFile(d, base) ==
    /\ PathStep
    /\ Path(d, base) \in fsys
    /\ fsys' = fsys \ {Path(d, base)}
    /\ resolved' = [resolved EXCEPT !.fresh = FALSE]
    /\ UNCHANGED <<paths, cache>>

\* The first directory of ps holding the file, 0 if none
FirstHit(fs, fold, ps, name) ==
    IF \E i \in 1..Len(ps) : exists(fs, fold, ps[i], name)
    THEN CHOOSE i \in 1..Len(ps) :
            /\ exists(fs, fold, ps[i], name)
            /\ \A j \in 1..(i - 1) : ~exists(fs, fold, ps[j], name)
    ELSE 0

\* PathManager.resolve(name): the path returned and the cache afterwards
resolve(name, fs, fold, ps, c) ==
    IF exists(fs, fold, Cwd, name)
    THEN [result |-> Path(Cwd, name), cache |-> c]
    ELSE IF name \in DOMAIN c
    THEN [result |-> c[name], cache |-> c]
    ELSE IF FirstHit(fs, fold, ps, name) # 0
    THEN [result |-> Path(ps[FirstHit(fs, fold, ps, name)], name),
          cache |-> Bind(c, name, Path(ps[FirstHit(fs, fold, ps, name)], name))]
    ELSE [result |-> NoPath, cache |-> c]

Resolve(name) ==
    /\ PathStep
    /\ \E r \in {resolve(name, fsys, foldcase, paths, cache)} :
           /\ cache' = r.cache
           /\ resolved' = [name |-> name, result |-> r.result, fresh |-> TRUE]
    /\ UNCHANGED <<fsys, paths>>

NextPath ==
    \/ \E d \in Dirs : add_path(d)
    \/ \E d \in Dirs : remove_path(d)
    \/ \E d \in Dirs \cup {Cwd}, b \in FileBases : CreateFile(d, b)
    \/ \E d \in Dirs \cup {Cwd}, b \in FileBases : DeleteFile(d, b)
    \/ \E n \in Requested : Resolve(n)

----------------------------------------------------------------------------
(* Statement dispatch of the parser and the Command rule of the transpiler *)

Token(type, value) == [type |-> type, value |-> value]

\* hold  on  'on'  '-'  3  (  +  =
Alphabet ==
    {Token("ID", "hold"), Token("ID", "on"), Token("STRING", "on"),
     Token("STRING", "-"), Token("NUMBER", "3"), Token("(", "("),
     Token("OP", "+"), Token("OP", "=")}

EOF == Token("EOF", "")

Statements == UNION {[1..n -> Alphabet] : n \in 1..MaxTokens}

\* Parser.lookahead(n) with pos = 0
lookahead(q, n) == IF n + 1 <= Len(q) THEN q[n + 1] ELSE EOF

WordTypes == {"ID", "STRING", "NUMBER"}
NotAfterCommand == {"(", ".", "=", ",", ";", "+", "-", "*", "/", "^", "[", "{"}

CommandNode(name, args) == [kind |-> "Command", name |-> name, args |-> args]
\* what statement() returns, or raises, on its way through expression()
OtherNode == [kind |-> "Other", name |-> "", args |-> <<>>]

\* The words after the first token, up to the first token that is not one
RECURSIVE Words(_, _)
Words(q, i) ==
    IF i > Len(q) \/ q[i].type \notin WordTypes THEN <<>>
    ELSE <<q[i].value>> \o Words(q, i + 1)

\* Parser.parse_command()
parse_command(q) == CommandNode(q[1].value, Words(q, 2))

\* Parser.statement(), for a statement that starts with no keyword
statement(q) ==
    IF q[1].type = "ID"
          /\ lookahead(q, 1).type \in WordTypes
          /\ lookahead(q, 1).value \notin NotAfterCommand
    THEN parse_command(q)
    ELSE OtherNode

NoCall == [f |-> "", args |-> <<>>]

\* Command node -> name('a1', 'a2', ...): the call the generated code makes
generate_Command(n) == [f |-> n.name, args |-> n.args]

ParseIdle ==
    /\ toks = <<>>
    /\ node = OtherNode
    /\ called = NoCall
    /\ ppc = "idle"
    /\ chars = <<>>

ReadStatement(q) ==
    /\ ppc = "idle"
    /\ toks' = q
    /\ ppc' = "read"
    /\ UNCHANGED <<node, called, chars, kvars, arrvars, pathvars, uivars,
                   callvars>>

ParseStatement ==
    /\ ppc = "read"
    /\ node' = statement(toks)
    /\ ppc' = "parsed"
    /\ UNCHANGED <<toks, called, chars, kvars, arrvars, pathvars, uivars,
                   callvars>>

RunStatement ==
    /\ ppc = "parsed"
    /\ called' = IF node.kind = "Command" THEN generate_Command(node) ELSE NoCall
    /\ ppc' = "ran"
    /\ UNCHANGED <<toks, node, chars, kvars, arrvars, pathvars, uivars,
                   callvars>>

NextParse ==
    \/ \E q \in Statements : ReadStatement(q)
    \/ ParseStatement
    \/ RunStatement

----------------------------------------------------------------------------
(* The tokenizer: Tokenizer.tokenize (language/tokenizer.py)               *)

\* The characters of a text: a letter, a digit, an operator, the point, a
\* blank and the end of a physical line
Letters == {"a"}
Digits == {"1"}
Spaces == {" ", "\n"}
Chars == Letters \cup Digits \cup Spaces \cup {"+", "."}

Texts == UNION {[1..n -> Chars] : n \in 1..MaxChars}

\* self.text[start:end] as a string; positions count from 1
RECURSIVE Str(_)
Str(cs) == IF cs = <<>> THEN "" ELSE Head(cs) \o Str(Tail(cs))

\* _peek: the character at position p, '' past the end
peek(t, p) == IF p <= Len(t) THEN t[p] ELSE ""

\* The first position from p on whose character is not in set
RECURSIVE Span(_, _, _)
Span(t, p, set) == IF p <= Len(t) /\ t[p] \in set THEN Span(t, p + 1, set) ELSE p

\* _skip_comment and _skip_line_continuation stop at the end-of-line
\* character and leave it in the text
skip_line_continuation(t, p) == Span(t, p + 3, Chars \ {"\n"})

read_identifier(t, p) == Span(t, p, Letters \cup Digits)

\* _read_number: sign, integer part, decimal part unless the point begins
\* '...'; the alphabet has no exponent or imaginary suffix
DecimalPart(t, p) ==
    IF peek(t, p) = "." /\ ~(peek(t, p + 1) = "." /\ peek(t, p + 2) = ".")
    THEN Span(t, p + 1, Digits)
    ELSE p
read_number(t, p) ==
    DecimalPart(t, Span(t, IF t[p] \in {"+", "-"} THEN p + 1 ELSE p, Digits))

\* _read_operator for a lone character
read_operator(ch) == IF ch = "." THEN Token(".", ".") ELSE Token("OP", ch)

\* The loop of tokenize() from position pos
RECURSIVE Scan(_, _, _, _)
Scan(t, pos, space_skipped, tokens) ==
    IF pos > Len(t) THEN Append(tokens, EOF)
    ELSE IF t[pos] \in Spaces
    THEN Scan(t, pos + 1, TRUE,
              IF t[pos] = "\n" THEN Append(tokens, Token("NEWLINE", "\n")) ELSE tokens)
    ELSE IF t[pos] = "." /\ peek(t, pos + 1) = "." /\ peek(t, pos + 2) = "."
    THEN Scan(t, skip_line_continuation(t, pos), TRUE, tokens)
    ELSE IF \/ /\ t[pos] \in {"+", "-"} /\ space_skipped
                /\ \/ peek(t, pos + 1) \in Digits
                   \/ peek(t, pos + 1) = "." /\ peek(t, pos + 2) \in Digits
            \/ t[pos] \in Digits
            \/ t[pos] = "." /\ peek(t, pos + 1) \in Digits
    THEN Scan(t, read_number(t, pos), FALSE,
              Append(tokens, Token("NUMBER", Str(SubSeq(t, pos, read_number(t, pos) - 1)))))
    ELSE IF t[pos] \in Letters
    THEN Scan(t, read_identifier(t, pos), FALSE,
              Append(tokens, Token("ID", Str(SubSeq(t, pos, read_identifier(t, pos) - 1)))))
    ELSE Scan(t, pos + 1, FALSE, Append(tokens, read_operator(t[pos])))

tokenize(t) == Scan(t, 1, TRUE, <<>>)

\* tokens = Tokenizer(text).tokenize()
Tokenize ==
    /\ ppc = "text"
    /\ toks' = tokenize(chars)
    /\ ppc' = "tokens"
    /\ UNCHANGED <<chars, node, called, kvars, arrvars, pathvars, uivars,
                   callvars>>

NextTok == Tokenize

----------------------------------------------------------------------------
(* The desktop host: MainWindow._run_code (ui/app.py) on the UI thread and *)
(* KernelWorker.run (ui/kernel_worker.py) on a thread of its own           *)

\* How session.execute() ends in the worker: normally, normally after
\* reporting a diagnostic, by an Exception, or by an exception that is not
\* an Exception (SystemExit)
Outcomes == {"ok", "reported", "raised", "exit"}

Worker(code) == [pc |-> "queued", code |-> code, outcome |-> "", out |-> FALSE,
                 sigs |-> <<>>]

UiIdle ==
    /\ ubusy = FALSE
    /\ wk = <<>>
    /\ uiq = <<>>
    /\ reqs = 0
    /\ lastReq = "none"
    /\ ws = ResetGlobals

UiFrame == UNCHANGED <<kvars, arrvars, pathvars, parsevars, callvars>>

\* A variant of the test that lets every request through
Accepts_always(busy) == TRUE

\* if self._busy: ... return
Accepts(busy) == ~busy

\* MainWindow._run_code(code) on the UI thread; setup is whether the
\* statements before thread.start() complete or raise
RunRequest(code, setup) ==
    /\ reqs < MaxRequests
    /\ reqs' = reqs + 1
    /\ IF ~Accepts(ubusy)
       THEN /\ lastReq' = "rejected"          \* "Kernel busy. Please wait."
            /\ UNCHANGED <<ubusy, wk>>
       ELSE IF code = ""
       THEN /\ lastReq' = "empty"
            /\ UNCHANGED <<ubusy, wk>>
       ELSE IF setup = "raise"
       THEN /\ lastReq' = "setup failed"      \* the except clause
            /\ ubusy' = FALSE
            /\ UNCHANGED wk
       ELSE /\ lastReq' = "started"
            /\ ubusy' = TRUE
            /\ wk' = Append(wk, Worker(code))
    /\ UNCHANGED <<uiq, ws>>
    /\ UiFrame

Emit(w, sig) == [wk EXCEPT ![w].sigs = Append(@, sig)]

\* run(): self.started.emit() -- no slot is connected to it
WorkerStarted(w) ==
    /\ wk[w].pc = "queued"
    /\ wk' = [Emit(w, "started") EXCEPT ![w].pc = "try"]
    /\ UNCHANGED <<ubusy, uiq, reqs, lastReq, ws>>
    /\ UiFrame

\* if self._code.strip(): ... self._session.execute(self._code) is entered
WorkerBegin(w) ==
    /\ wk[w].pc = "try"
    /\ wk' = [wk EXCEPT ![w].pc = IF wk[w].code = "" THEN "finally" ELSE "executing"]
    /\ UNCHANGED <<ubusy, uiq, reqs, lastReq, ws>>
    /\ UiFrame

\* A variant in which the except clause returns from run()
AfterExcept_return == "done"

\* Where control goes when the except clause is left
AfterExcept == "finally"

\* session.execute() returns or raises; out is whether anything was printed.
\* The code is x = 1; a run that ends normally has bound x in the workspace
WorkerEnd(w, outcome, out) ==
    /\ wk[w].pc = "executing"
    /\ wk' = [wk EXCEPT ![w].pc = IF outcome = "raised" THEN "except" ELSE "finally",
                         ![w].outcome = outcome,
                         ![w].out = out]
    /\ ws' = IF outcome = "ok" THEN Bind(ws, "x", Num(1)) ELSE ws
    /\ UNCHANGED <<ubusy, uiq, reqs, lastReq>>
    /\ UiFrame

\* except Exception as e: ... self.failed.emit(...)
WorkerExcept(w) ==
    /\ wk[w].pc = "except"
    /\ wk' = [Emit(w, "failed") EXCEPT ![w].pc = AfterExcept]
    /\ uiq' = Append(uiq, [w |-> w, sig |-> "failed"])
    /\ UNCHANGED <<ubusy, reqs, lastReq, ws>>
    /\ UiFrame

\* finally: if out: self.output.emit(out)
WorkerFlush(w) ==
    /\ wk[w].pc = "finally"
    /\ IF wk[w].out
       THEN /\ wk' = [Emit(w, "output") EXCEPT ![w].pc = "notify"]
            /\ uiq' = Append(uiq, [w |-> w, sig |-> "output"])
       ELSE /\ wk' = [wk EXCEPT ![w].pc = "notify"]
            /\ UNCHANGED uiq
    /\ UNCHANGED <<ubusy, reqs, lastReq, ws>>
    /\ UiFrame

\* finally: self.finished.emit()
WorkerFinished(w) ==
    /\ wk[w].pc = "notify"
    /\ wk' = [Emit(w, "finished") EXCEPT ![w].pc = "done"]
    /\ uiq' = Append(uiq, [w |-> w, sig |-> "finished"])
    /\ UNCHANGED <<ubusy, reqs, lastReq, ws>>
    /\ UiFrame

\* The UI thread runs the slot of the oldest queued signal.  finished ->
\* _on_execution_finished, which clears _busy unless a widget update
\* before that line raises (handler = "raise")
Deliver(handler) ==
    /\ uiq # <<>>
    /\ uiq' = Tail(uiq)
    /\ IF Head(uiq).sig = "finished" /\ handler = "ok"
       THEN ubusy' = FALSE
       ELSE UNCHANGED ubusy
    /\ UNCHANGED <<wk, reqs, lastReq, ws>>
    /\ UiFrame

\* MainWindow._clear_workspace on the UI thread: session._clear_user()
\* The slot does not look at _busy
ClearWorkspace ==
    /\ ws' = ClearUser(ws, <<>>)
    /\ UNCHANGED <<ubusy, wk, uiq, reqs, lastReq>>
    /\ UiFrame

\* MainWindow._sync_variable_to_kernel(name, value) on the UI thread, for a
\* variable shown in the table
EditVariable(name, value) ==
    /\ name \in DOMAIN ws
    /\ ws[name].t = "num"
    /\ ws' = [ws EXCEPT ![name] = value]
    /\ UNCHANGED <<ubusy, wk, uiq, reqs, lastReq>>
    /\ UiFrame

NextUi ==
    \/ \E code \in {"", "x"}, setup \in {"ok", "raise"} : RunRequest(code, setup)
    \/ \E w \in 1..Len(wk) : WorkerStarted(w)
    \/ \E w \in 1..Len(wk) : WorkerBegin(w)
    \/ \E w \in 1..Len(wk), o \in Outcomes, out \in BOOLEAN : WorkerEnd(w, o, out)
    \/ \E w \in 1..Len(wk) : WorkerExcept(w)
    \/ \E w \in 1..Len(wk) : WorkerFlush(w)
    \/ \E w \in 1..Len(wk) : WorkerFinished(w)
    \/ \E h \in {"ok", "raise"} : Deliver(h)
    \/ ClearWorkspace
    \/ \E n \in {"x", "ans"}, v \in {Num(1), Num(2)} : EditVariable(n, v)

----------------------------------------------------------------------------
(* Calling a transpiled function: the code generated for a FunctionDef     *)
(* (language/transpiler.py) and cell() (math/arrays.py)                    *)

\* function ... = f(formals): parameter names, each at most once
FormalNames == {"a", "b", "varargin"}
Formals ==
    {q \in UNION {[1..n -> FormalNames] : n \in 0..MaxFormals} :
        \A i \in 1..Len(q), j \in 1..Len(q) : q[i] = q[j] => i = j}

\* Actual arguments: the numbers 1 and 2, and the matrix [1 2 3]
ActualValues == {Num(1), Num(2), Row123}
Actuals == UNION {[1..n -> ActualValues] : n \in 0..MaxActuals}

IsArray(x) == "shape" \in DOMAIN x

\* The elements of a matrix in row-major order: np.array() of it
RowMajor(a) == [p \in 1..Size(a.shape) |-> a.data[UnravelC(p - 1, a.shape)]]

RECURSIVE Flatten(_)
Flatten(xs) == IF xs = <<>> THEN <<>> ELSE RowMajor(Head(xs)) \o Flatten(Tail(xs))

\* cell(list): MatlabArray(np.array(list, dtype=object)).  numpy takes the
\* items that are arrays apart: a list of arrays of one shape becomes one
\* array of their elements with a leading dimension for the list
cell(xs) ==
    IF xs # <<>> /\ \A i \in 1..Len(xs) : IsArray(xs[i])
    THEN [shape |-> <<Len(xs)>> \o xs[1].shape, items |-> Flatten(xs)]
    ELSE [shape |-> <<1, Len(xs)>>, items |-> xs]

\* The argument lines of def f(*args): one line per formal, up to and
\* including varargin; i is the 0-based index of the next formal
RECURSIVE Unpack(_, _, _, _)
Unpack(formals, i, args, loc) ==
    IF i >= Len(formals) THEN loc
    ELSE IF formals[i + 1] = "varargin"
    THEN Bind(loc, "varargin", cell(SubSeq(args, i + 1, Len(args))))
    ELSE Unpack(formals, i + 1, args,
                Bind(loc, formals[i + 1],
                     IF Len(args) > i THEN args[i + 1] ELSE NoneVal))

\* nargin = len(args), then the argument lines
BindArguments(formals, args) ==
    Unpack(formals, 0, args, [n \in {"nargin"} |-> Num(Len(args))])

NoLocals == [n \in {} |-> NoneVal]

CallIdle ==
    /\ fcall = [formals |-> <<>>, args |-> <<>>]
    /\ flocals = NoLocals

\* A function of any formals about to be called with any actuals
CallInit ==
    /\ fcall \in [formals : Formals, args : Actuals]
    /\ flocals = NoLocals

\* f(args): the lines of the generated function before its body
CallFunction ==
    /\ flocals = NoLocals
    /\ flocals' = BindArguments(fcall.formals, fcall.args)
    /\ UNCHANGED <<fcall, kvars, arrvars, pathvars, parsevars, uivars>>

NextCall == CallFunction

----------------------------------------------------------------------------
(* The session and its read-execute-print loop (cli.main) *)

NoUnit == [stmts |-> <<>>, semi |-> FALSE]

\* The parts of the program a specification does not drive
ExtIdle == PathIdle /\ ParseIdle /\ UiIdle /\ CallIdle

NumbersBounded(g) == \A k \in DOMAIN g : g[k].t = "num" => g[k].n <= MaxNum

Init ==
    /\ globals = ResetGlobals
    /\ registered = {}
    /\ files \in SUBSET FileNames
    /\ pc = "prompt"
    /\ line = NoUnit
    /\ stdout = <<>>
    /\ ret = NoneVal
    /\ retries = 0
    /\ escaped = FALSE
    /\ atload = 0
    /\ ran = 0
    /\ pre = ResetGlobals
    /\ calls = 0
    /\ ArrIdle
    /\ ExtIdle

\* line = input(">> ")
ReadLine(u) ==
    /\ pc = "prompt"
    /\ calls < MaxCalls
    /\ calls' = calls + 1
    /\ pc' = "read"
    /\ line' = u
    /\ pre' = globals
    /\ UNCHANGED <<globals, registered, files, stdout, ret, retries, escaped,
                   atload, ran>>
    /\ UNCHANGED <<arrvars, extvars>>

\* res = execute(line, session)
Execute ==
    /\ pc = "read"
    /\ \E o \in {execute(line, globals, registered, files, 0)} :
           /\ NumbersBounded(o.g)
           /\ globals' = o.g
           /\ registered' = o.reg
           /\ stdout' = o.out
           /\ ret' = o.ret
           /\ retries' = o.retries
           /\ escaped' = o.escaped
           /\ atload' = o.atload
           /\ ran' = o.ran
    /\ pc' = "done"
    /\ UNCHANGED <<files, line, pre, calls>>
    /\ UNCHANGED <<arrvars, extvars>>

\* if res: print(res), and back to the prompt
PrintOutcome ==
    /\ pc = "done"
    /\ pc' = "prompt"
    /\ line' = NoUnit
    /\ stdout' = <<>>
    /\ ret' = NoneVal
    /\ retries' = 0
    /\ escaped' = FALSE
    /\ atload' = 0
    /\ ran' = 0
    /\ pre' = globals
    /\ UNCHANGED <<globals, registered, files, calls>>
    /\ UNCHANGED <<arrvars, extvars>>

Next ==
    \/ \E u \in Units : ReadLine(u)
    \/ Execute
    \/ PrintOutcome

Spec == Init /\ [][Next]_vars

\* A fresh session at the prompt
KernelIdle ==
    /\ globals = ResetGlobals
    /\ registered = {}
    /\ files = {}
    /\ pc = "prompt"
    /\ line = NoUnit
    /\ stdout = <<>>
    /\ ret = NoneVal
    /\ retries = 0
    /\ escaped = FALSE
    /\ atload = 0
    /\ ran = 0
    /\ pre = ResetGlobals
    /\ calls = 0

InitArr == KernelIdle /\ ArrInit /\ ExtIdle

SpecArr == InitArr /\ [][NextArr]_vars

InitIdx == KernelIdle /\ IdxInit /\ ExtIdle

SpecIdx == InitIdx /\ [][NextIdx]_vars

InitPath == KernelIdle /\ ArrIdle /\ PathInit /\ ParseIdle /\ UiIdle /\ CallIdle

SpecPath == InitPath /\ [][NextPath]_vars

InitParse == KernelIdle /\ ArrIdle /\ PathIdle /\ ParseIdle /\ UiIdle /\ CallIdle

SpecParse == InitParse /\ [][NextParse]_vars

\* Tokenizer(text), for every text
InitTok ==
    /\ KernelIdle /\ ArrIdle /\ PathIdle /\ UiIdle /\ CallIdle
    /\ toks = <<>>
    /\ node = OtherNode
    /\ called = NoCall
    /\ ppc = "text"
    /\ chars \in Texts

SpecTok == InitTok /\ [][NextTok]_vars

InitCall ==
    KernelIdle /\ ArrIdle /\ PathIdle /\ ParseIdle /\ UiIdle /\ CallInit

SpecCall == InitCall /\ [][NextCall]_vars

InitUi == KernelIdle /\ ArrIdle /\ PathIdle /\ ParseIdle /\ UiIdle /\ CallIdle

SpecUi == InitUi /\ [][NextUi]_vars

----------------------------------------------------------------------------
(* Properties of execute() and of the session *)

Done == pc = "done"
Stmts == line.stmts

\* Names a unit refers to
RefsOf(s) ==
    CASE s.op \in {"call", "assigncall", "try"} -> {s.f}
      [] s.op \in {"name", "incr"} -> {s.v}
      [] s.op \in {"clear", "clearall"} -> {"clear"}
      [] OTHER -> {}
Refs(stmts) == UNION {RefsOf(stmts[i]) : i \in 1..Len(stmts)}

\* C1: one call to execute() makes at most one load-and-retry; a second
\* unresolved-name failure is reported and execute() returns.
C1_AtMostOneRetry == Done => retries <= 1

\* C2: with foo unbound and foo.m a function file, execute("foo(1)")
\* returns None, leaves foo bound to the loaded callable and binds ans to
\* the value foo returned.
C2_LazyResolution ==
    (Done /\ Stmts = <<S("call", "", "foo", 1)>>
          /\ "foo" \notin DOMAIN pre /\ "foo" \in files)
    => /\ ret = NoneVal
       /\ "foo" \in DOMAIN globals /\ globals["foo"] = Func("foo")
       /\ "ans" \in DOMAIN globals
       /\ globals["ans"] = CallFunc("foo", <<Num(1)>>, globals).val

C2_Witness ==
    /\ Done /\ Stmts = <<S("call", "", "foo", 1)>>
    /\ "foo" \notin DOMAIN pre /\ "foo" \in files
    /\ retries = 1 /\ ret = NoneVal

\* C3: when exactly one name the unit refers to is unbound and it is
\* loadable, the workspace and the printed output after execute() are those
\* of executing the same unit with that name already bound to the callable.
C3_TransparentRetry ==
    \A n \in FileNames :
        (Done /\ n \in files /\ Refs(Stmts) \ DOMAIN pre = {n})
        => \E ref \in {execute(line, Bind(pre, n, EntryFunc(n)), registered, files, 0)} :
               globals = ref.g /\ stdout = ref.out

\* C4: a failing unit does not leave execute() by an exception, and every
\* assignment made by a statement that completed before the failing one is
\* still bound with the value it was given.
Touches(s, v) == s.v = v \/ s.op \in {"clearall", "clear", "name", "try"}

C4_FailureKeepsProgress ==
    (Done /\ ret # NoneVal)
    => /\ ~escaped
       /\ ENABLED PrintOutcome
       /\ LET py == transpile(Stmts)
          IN  \A i \in 1..ran :
                 (py[i].op = "assign"
                      /\ \A j \in (i + 1)..ran : ~Touches(py[j], py[i].v))
                 => /\ py[i].v \in DOMAIN globals
                    /\ globals[py[i].v] = Num(py[i].a)

C4_Witness ==
    /\ Done /\ ret # NoneVal /\ ran = 1
    /\ Stmts[1] = S("assign", "x", "", 1)
    /\ "x" \notin DOMAIN pre
    /\ globals["x"] = Num(1)

\* C11: a unit that is solely a function definition prints nothing and
\* leaves ans as it was; any other successful unit whose last construct is a
\* call expression has ans bound to the value of that call, whatever comes
\* before it in the unit.
C11_UnitClassification ==
    (Done /\ ret = NoneVal /\ Stmts # <<>>)
    => /\ Stmts = <<S("def", "g", "", 0)>> =>
             /\ stdout = <<>>
             /\ "g" \in DOMAIN globals
             /\ \A k \in {"ans"} \cap DOMAIN pre :
                    k \in DOMAIN globals /\ globals[k] = pre[k]
       /\ (Stmts[Len(Stmts)].op = "call" /\ transpile(Stmts) = Stmts) =>
             /\ "ans" \in DOMAIN globals
             /\ globals["ans"] = Num(Stmts[Len(Stmts)].a + 1)

\* C12: execute() returns None exactly when the unit succeeded: it returns
\* a non-None value whenever it printed an error diagnostic, the 'Not enough
\* input arguments' one included, and when the unit is an undefined name.
Diagnostic(o) == o.tag = "error" \/ o.tag = "text"

C12_ReturnTellsFailure ==
    Done =>
       /\ (ret # NoneVal) <=> (\E i \in 1..Len(stdout) : Diagnostic(stdout[i]))
       /\ (Stmts = <<S("name", "x", "", 0)>> /\ "x" \notin DOMAIN pre)
             => ret # NoneVal

\* The dialect source line on which statement k of a multi-line unit
\* starts, one statement per line, a function definition taking three
SrcLines(s) == IF s.op = "def" THEN 3 ELSE 1
RECURSIVE SrcLine(_, _)
SrcLine(stmts, k) ==
    IF k <= 1 THEN 1 ELSE SrcLine(stmts, k - 1) + SrcLines(stmts[k - 1])

\* The failing statement raised in the unit's own generated code
RaisedInUnit ==
    /\ ran < Len(Stmts)
    /\ ~(Stmts[ran + 1].op \in {"call", "assigncall"}
           /\ Stmts[ran + 1].f \in DOMAIN globals
           /\ globals[Stmts[ran + 1].f].t = "func")

\* C13: when a statement of a multi-line unit raises at runtime, the
\* diagnostic carries the source line of that statement, not a placeholder
\* or the generated line; the line map has an entry for every generated line.
C13_LineMapping ==
    (Done /\ ret # NoneVal /\ transpile(Stmts) = Stmts /\ Stmts # <<>>)
    => /\ \A l \in 1..LinesBefore(Stmts, Len(Stmts) + 1) :
             l \in DOMAIN line_map(Stmts)
       /\ RaisedInUnit =>
             stdout[Len(stdout)].at = ToString(SrcLine(Stmts, ran + 1))

C8_ClearSemantics ==
    (Done /\ Stmts = <<S("clearall", "", "", 0)>>)
    => /\ DOMAIN globals \subseteq BuiltinsSet
       /\ \A k \in BuiltinsSet :
             /\ k \in DOMAIN globals
             /\ k \in DOMAIN pre => globals[k] = pre[k]

\* C9: after clear with no arguments ans is present and bound to zero.
C9_AnsResetByClear ==
    (Done /\ Stmts = <<S("clearall", "", "", 0)>>)
    => ("ans" \in DOMAIN globals /\ globals["ans"] = Num(0))

\* C10: a successful unit that is one assignment to a plain variable binds
\* the variable, prints nothing with a trailing ';' and prints name = value
\* without it; a unit ending in a bare expression that yields a value binds
\* ans and prints nothing with a trailing ';'.
C10_Suppression ==
    (Done /\ ret = NoneVal /\ Len(Stmts) = 1)
    => /\ IsAssignName(Stmts[1]) =>
             /\ Stmts[1].v \in DOMAIN globals
             /\ line.semi => stdout = <<>>
             /\ ~line.semi => stdout = <<OutValue(Stmts[1].v, globals[Stmts[1].v])>>
       /\ (Stmts[1].op = "call" /\ line.semi) =>
             ("ans" \in DOMAIN globals /\ stdout = <<>>)

----------------------------------------------------------------------------
(* Properties of the search path *)

\* The path the documented search order gives for name in the current state
SearchOrder(name) ==
    IF exists(fsys, foldcase, Cwd, name) THEN Path(Cwd, name)
    ELSE IF \E i \in 1..Len(paths) : exists(fsys, foldcase, paths[i], name)
    THEN Path(paths[CHOOSE i \in 1..Len(paths) :
                       /\ exists(fsys, foldcase, paths[i], name)
                       /\ \A j \in 1..(i - 1) :
                              ~exists(fsys, foldcase, paths[j], name)], name)
    ELSE NoPath

\* C14: resolve(name) returns the file of the current directory if it exists
\* at the time of the call, otherwise the file of the earliest-added search
\* path that has one at that time, otherwise no path.
C14_ResolutionOrder ==
    resolved.fresh => resolved.result = SearchOrder(resolved.name)

\* C16: a file of the current directory is found when the requested name
\* differs from its base name only by letter case.
C16_CaseInsensitive ==
    (resolved.fresh
        /\ \E f \in fsys : f.dir = Cwd /\ Lower(f.file) = Lower(resolved.name))
    => /\ resolved.result.dir = Cwd
       /\ Lower(resolved.result.file) = Lower(resolved.name)

----------------------------------------------------------------------------
(* Properties of the parser *)

\* The statement is an identifier followed by identifier, string and number
\* tokens only
AllWords ==
    /\ Len(toks) >= 2
    /\ toks[1].type = "ID"
    /\ \A i \in 2..Len(toks) : toks[i].type \in WordTypes

\* C17: a statement that starts with an identifier immediately followed by
\* an identifier, string or number token is parsed as a Command node; when
\* the whole statement is such words, running it calls the first identifier
\* with each following word as a string argument.
C17_CommandHeuristic ==
    /\ (ppc \in {"parsed", "ran"} /\ Len(toks) >= 2 /\ toks[1].type = "ID"
            /\ toks[2].type \in WordTypes)
       => (node.kind = "Command" /\ node.name = toks[1].value)
    /\ (ppc = "ran" /\ AllWords)
       => called = [f |-> toks[1].value,
                    args |-> [i \in 1..(Len(toks) - 1) |-> toks[i + 1].value]]

----------------------------------------------------------------------------
(* Properties of the desktop host *)

\* Workers inside session.execute()
InFlight(w) == {i \in 1..Len(w) : w[i].pc = "executing"}
\* Workers whose session.execute() has not returned yet
NotReturned(w) == {i \in 1..Len(w) : w[i].pc \in {"queued", "try", "executing"}}

\* C18: at most one execute() is in flight; a run request that arrives while
\* the host is busy starts no worker; the busy flag is cleared only after
\* the worker's execute() has returned.
C18_SingleFlight ==
    [][ /\ Cardinality(InFlight(wk')) <= 1
        /\ (ubusy /\ reqs' # reqs) => (wk' = wk /\ lastReq' = "rejected")
        /\ (ubusy /\ ~ubusy') => NotReturned(wk) = {} ]_vars

C18_Witness ==
    /\ lastReq = "rejected"
    /\ Cardinality(InFlight(wk)) = 1
    /\ Len(wk) = 1

Count(q, x) == Cardinality({i \in 1..Len(q) : q[i] = x})

\* C19: every run() emits finished exactly once and as its last signal,
\* however execute() ends; output and failed come before it.
C19_FinishedOnceLast ==
    \A w \in 1..Len(wk) :
        /\ Count(wk[w].sigs, "finished") <= 1
        /\ Count(wk[w].sigs, "finished") = 1
              => wk[w].sigs[Len(wk[w].sigs)] = "finished"
        /\ wk[w].pc = "done" => Count(wk[w].sigs, "finished") = 1

C19_Witness ==
    \E w \in 1..Len(wk) :
        /\ wk[w].pc = "done" /\ wk[w].outcome = "raised" /\ wk[w].out
        /\ wk[w].sigs = <<"started", "failed", "output", "finished">>

----------------------------------------------------------------------------
(* Properties of array assignment *)

WasSet == lastOp.op = "set"
Target == heap[avars[lastOp.name].id]
Before == lastOp.before[lastOp.name]
DimOf(shape, d) == IF d <= Len(shape) THEN shape[d] ELSE 1
Pad(c, n) == [d \in 1..n |-> IF d <= Len(c) THEN c[d] ELSE 0]

\* C5: after B = A, an indexed assignment to one of the two variables
\* leaves the elements and the shape of the other unchanged.
C5_AssignCopies ==
    WasSet =>
        \A n \in DOMAIN lastOp.before :
            (n # lastOp.name
                /\ (avars[n].src = lastOp.name \/ avars[lastOp.name].src = n))
            => heap[avars[n].id] = lastOp.before[n]

\* C6: writing A(i) = v at an in-bounds linear index of a matrix and then
\* reading A(i) returns v.
C6_RoundTrip ==
    (WasSet /\ Len(lastOp.args) = 1 /\ lastOp.name \in DOMAIN lastOp.before
            /\ lastOp.args[1] <= Size(Before.shape))
    => /\ lastOp.exc = "none"
       /\ ReadLinear(Target, lastOp.args[1]) = [exc |-> "none", val |-> lastOp.v]

\* C7: an out-of-bounds write succeeds, makes no dimension smaller, keeps
\* every old position, zero-fills the new positions that are not written and
\* stores the value at the written position.
OutOfBounds(shape, args) ==
    IF Len(args) = 1 THEN args[1] > Size(shape)
    ELSE \E d \in 1..Len(args) : args[d] > DimOf(shape, d)

C7_ExpansionMonotone ==
    (WasSet /\ lastOp.name \in DOMAIN lastOp.before
            /\ OutOfBounds(Before.shape, lastOp.args)
            /\ CanStore(lastOp.v, Before.dtype))
    => LET n == Len(Target.shape)
           written(c) ==
               IF Len(lastOp.args) = 1
               THEN Ravel(c, Target.shape) = lastOp.args[1] - 1
               ELSE \A d \in 1..Len(lastOp.args) : c[d] = lastOp.args[d] - 1
       IN  /\ lastOp.exc = "none"
           /\ \A d \in 1..Len(Before.shape) : DimOf(Target.shape, d) >= Before.shape[d]
           /\ \A c \in Coords(Before.shape) :
                 Pad(c, n) \in Coords(Target.shape)
                 /\ (~written(Pad(c, n)) => Target.data[Pad(c, n)] = Before.data[c])
           /\ \A c \in Coords(Target.shape) :
                 IF written(c) THEN Target.data[c] = Cast(lastOp.v, Target.dtype)
                 ELSE (\E d \in 1..n : c[d] >= DimOf(Before.shape, d))
                          => Target.data[c] = Zero

\* The array an assignment found: the variable's value, or mat([]) for a
\* variable that did not exist
Found == IF lastOp.name \in DOMAIN lastOp.before THEN Before ELSE NoArr

\* The plain assignment of the last statement failed with an index error and
\* the bounds its subscript resolves to do not exceed the shape
FailsWithinBounds ==
    \/ lastOp.op = "setmask"
    \/ lastOp.op = "setend" /\ Size(Found.shape) = 0

\* C20: when the plain assignment fails with an index error but the resolved
\* bounds do not exceed the current shape, set_val expands nothing, surfaces
\* the index error and does not re-enter itself.
C20_NoRetryLoop ==
    FailsWithinBounds =>
        /\ lastOp.exc = "IndexError"
        /\ Target = Found

----------------------------------------------------------------------------
(* Loaded callables, the workspace and its writers *)

\* C21: a function loaded from a file finds, when called, the names its body
\* refers to that are bound in the workspace: bar(1), whose body calls foo,
\* does not fail with an unresolved name when foo is bound to a callable.
C21_LoadedFunctionNames ==
    (Done /\ Stmts = <<S("assigncall", "y", "bar", 1)>>
          /\ "foo" \in DOMAIN pre /\ callable(pre["foo"]))
    => ~(ret.t = "exc" /\ ret.k = "NameError" /\ ret.name = "foo")

\* C22: load_and_register runs none of a file's top-level statements,
\* whether the file is a function file or a script; they run only when the
\* registered callable is invoked.
C22_NoCodeAtLoad == Done => atload = 0

\* C23: while a worker's execute() is in flight no step of the UI thread
\* adds, removes or rebinds a workspace entry: every change of the workspace
\* made then is a step of the worker.
C23_SingleWriter ==
    [][ (InFlight(wk) # {} /\ ws' # ws) => wk' # wk ]_vars

\* C24: ans is bound in the workspace in every state of a session, whatever
\* units were executed, a try block without a catch variable that caught an
\* error included.
C24_AnsAlwaysBound == "ans" \in DOMAIN globals

----------------------------------------------------------------------------
(* Properties of the tokenizer *)

\* Where the first '...' of a text begins, 0 when it has none or when no
\* physical line follows it
Dots(t) == {i \in 1..Len(t) : peek(t, i) = "." /\ peek(t, i + 1) = "."
                                /\ peek(t, i + 2) = "."}
FirstDots(t) == CHOOSE i \in Dots(t) : \A j \in Dots(t) : i <= j
Continued(t) ==
    Dots(t) # {} /\ \E k \in (FirstDots(t) + 3)..Len(t) : t[k] = "\n"

\* The same text on one physical line: the first '...', what follows it and
\* the end of that line are replaced by a blank
OnOneLine(t) ==
    SubSeq(t, 1, FirstDots(t) - 1) \o <<" ">>
        \o SubSeq(t, skip_line_continuation(t, FirstDots(t)) + 1, Len(t))

\* C25: a text continued with '...' has the tokens of the same text written
\* on one line; no NEWLINE token stands for the line end that the
\* continuation covers.
C25_ContinuationInvisible ==
    (ppc = "tokens" /\ Continued(chars)) => toks = tokenize(OnOneLine(chars))

----------------------------------------------------------------------------
(* Properties of indexed reads and of sparse storage *)

WasRead == lastOp.op \in {"getscalar", "getend", "getcolon"}

\* A numeric subscript list with a subscript outside 1..numel for one
\* subscript, outside 1..size of its dimension for more
ReadOutOfBounds(shape, args) ==
    IF Len(args) = 1 THEN args[1] < 1 \/ args[1] > Size(shape)
    ELSE \E d \in 1..Len(args) : args[d] < 1 \/ args[d] > DimOf(shape, d)

\* C26: a read with a subscript out of bounds, zero and negative subscripts
\* included, returns no element: it raises IndexError, reported as 'Index
\* exceeds the number of array elements'.
C26_ReadOutOfBounds ==
    (lastOp.op = "getscalar" /\ ReadOutOfBounds(Before.shape, lastOp.args))
    => /\ lastOp.exc = "IndexError"
       /\ lastOp.v = <<>>
       /\ matlab_message(lastOp.exc) = "Index exceeds the number of array elements."

\* C27: reading a valid subscript list from a sparse matrix yields the
\* elements, in the order, that reading it from the same matrix in dense
\* storage yields; A(:) and A(k) are column-major for both.
C27_SparseReadsAsDense ==
    (WasRead /\ Before.sparse /\ lastOp.exc = "none")
    => lastOp.v = Read(full(Before),
                       Sub(CASE lastOp.op = "getend" -> "end"
                             [] lastOp.op = "getcolon" -> "colon"
                             [] OTHER -> "scalar", lastOp.args, 0)).val

\* C28: an indexed assignment to a sparse array with a subscript beyond its
\* bounds fails with the error reported as a dimension error, not as an
\* index error, and leaves the array as it was.
C28_SparseNoExpansion ==
    (WasSet /\ Before.sparse /\ OutOfBounds(Before.shape, lastOp.args))
    => /\ lastOp.exc # "none"
       /\ matlab_message(lastOp.exc) = "Matrix dimensions must agree."
       /\ Target = Before

\* The element at 0-based column-major position p of a dense array
At(a, p) == a.data[Unravel(p, a.shape)]

\* C29: A(i) = v with A unbound binds A to a new array of at least i
\* elements whose element i is v and whose other elements are 0; with A bound
\* the assignment is applied to the array A already holds, and its other
\* elements keep their values.
C29_AssignmentCreates ==
    [][ (lastOp'.count # lastOp.count /\ lastOp'.op = "set"
            /\ Len(lastOp'.args) = 1)
        => LET n == lastOp'.name
               i == lastOp'.args[1]
               new == heap'[avars'[n].id]
           IN  IF n \notin DOMAIN avars
               THEN /\ lastOp'.exc = "none"
                    /\ Size(new.shape) >= i
                    /\ \A p \in 0..(Size(new.shape) - 1) :
                          At(new, p) = IF p = i - 1 THEN lastOp'.v ELSE Zero
               ELSE /\ avars'[n].id = avars[n].id
                    /\ \A p \in 0..(Size(heap[avars[n].id].shape) - 1) :
                          p # i - 1 => /\ p < Size(new.shape)
                                       /\ At(new, p) = At(heap[avars[n].id], p) ]_vars

----------------------------------------------------------------------------
(* Properties of a function call *)

\* C30: with n formals and k actuals, nargin is k, each formal among the
\* first min(k, n) is bound to its actual, each formal beyond them is bound
\* to None, and varargin is bound to a cell holding exactly the actuals from
\* its own position onward, in order.
C30_ArgumentBinding ==
    flocals # NoLocals
    => LET n == Len(fcall.formals)
           k == Len(fcall.args)
       IN  /\ flocals["nargin"] = Num(k)
           /\ \A i \in 1..n :
                 /\ fcall.formals[i] \in DOMAIN flocals
                 /\ IF fcall.formals[i] = "varargin"
                    THEN flocals["varargin"].items = SubSeq(fcall.args, i, k)
                    ELSE flocals[fcall.formals[i]] =
                             IF i <= k THEN fcall.args[i] ELSE NoneVal

====
